---------------------------- MODULE Spec2Model ----------------------------
(***************************************************************************)
(* Oraculo: the scan engine of api_server.py (OraculoAPIEngine) with the   *)
(* scanner, the order-flow analyzer and the signal detector it drives.     *)
(*                                                                         *)
(* Numbers with decimals are kept as integers in hundredths (RVol 5.0 is   *)
(* 500, a buy/sell ratio of 1.5 is 150).  A DataFrame of candles is kept   *)
(* by what the code reads of it: its length, the last volume, the sum of   *)
(* the volumes before the last, and the result of the Bollinger squeeze    *)
(* test on its closes.                                                     *)
(***************************************************************************)
EXTENDS Integers, Sequences, FiniteSets, TLC

VARIABLES
    pc,              \* the process: "start", "serving", "closed" (shut down), "dead"
    running,         \* OraculoAPIEngine.running
    active_pairs,    \* MarketScanner.active_pairs
    init_error,      \* which start-up fetch failed: "none", "markets", "tickers", "partial"
    cycle,           \* number of scan_and_save calls started
    tpc,             \* where the run_continuous task is suspended
    tasks,           \* scan_all_pairs: the symbols in the order the tasks were built
    results,         \* scan_all_pairs: symbol -> Pending, Hung, Failed, None or the anomaly
    rvol_signals,    \* scan_and_save: the list scan_all_pairs returned
    idx,             \* scan_and_save: index of the candidate being analyzed
    trades_df,       \* analyze_pair: the trades fetched for the candidate
    orderflow_data,  \* scan_and_save: the result of analyze_pair
    imbalance_data,  \* scan_and_save: the result of get_orderbook_imbalance
    all_signals,     \* scan_and_save: the Signals built so far in this cycle
    latest_signals,  \* api_server.latest_signals (the served cache)
    published,       \* the lists handed to broadcast_signals in this cycle, in call order
    db_cycle,        \* the Signals db.save_signal stored in this cycle, in call order
    scan_failed,     \* symbols whose candle fetch failed in the volume scan of this cycle
    save_failed,     \* symbols whose db.save_signal raised in this cycle
    fetch_count,     \* symbol -> candle fetches issued for it in this cycle
    book_failed,     \* analyze_pair: the order-book fetch of the last call failed
    hung,            \* the fetch the task awaits never returns
    late,            \* what the task did after the data clients were closed
    broadcast_failed, \* broadcast_signals raised in this cycle
    signals_history, \* SignalDetector.signals_history
    fan_universe,    \* fan-out view of scan_all_pairs: number of active pairs
    fan_in_flight,   \* fan-out view of scan_all_pairs: scan_pair tasks in flight
    fan_pc,          \* fan-out view of scan_all_pairs: "idle", "gather", "done"
    call,            \* call view of the analyzers: the function called last
    arg,             \* call view of the analyzers: what it was called with
    ret,             \* call view of the analyzers: what it returned (a record)
    loads,           \* load view of the scanner: calls of _load_tradable_pairs made
    connected_clients, \* api_server.connected_clients, a list of WebSockets
    sock,            \* websocket view: the connection of each WebSocket
    bcast_pc,        \* broadcast_signals: "idle", or "sending" at its await
    bcast_i,         \* broadcast_signals: the index of the list iterator
    bcast_cur,       \* broadcast_signals: the client of the send awaited
    disconnected,    \* broadcast_signals: its list of clients whose send raised
    at_start,        \* the clients in the list when the last broadcast started
    received,        \* the clients the last broadcast was sent to with success
    broadcasts,      \* calls of broadcast_signals made
    remove_calls,    \* WebSocket -> calls of connected_clients.remove made with it
    ws_errors,       \* where connected_clients.remove raised ValueError
    max_reconnect_attempts, \* WebSocketManager.max_reconnect_attempts
    managers,        \* WebSocketManager objects built after the first
    reconnect_count, \* WebSocketManager.reconnect_count
    failures,        \* failed connection attempts since the last success
    ws,              \* WebSocketManager.ws: "none", "open" or "closed"
    ws_running,      \* WebSocketManager.running
    mpc,             \* where the manager's caller is: "idle" or at an await
    caller,          \* who called connect(): "listen" or "direct"
    gave_up,         \* connect() has returned False
    late_calls       \* calls of listen() and connect() made after that

vars == <<pc, running, active_pairs, init_error, cycle, tpc, tasks, results,
          rvol_signals, idx, trades_df, orderflow_data, imbalance_data,
          all_signals, latest_signals, published, db_cycle, scan_failed,
          save_failed, fetch_count, book_failed, hung, late, broadcast_failed,
          signals_history,
          fan_universe, fan_in_flight, fan_pc, call, arg, ret, loads,
          connected_clients, sock, bcast_pc, bcast_i, bcast_cur, disconnected,
          at_start, received, broadcasts, remove_calls, ws_errors,
          max_reconnect_attempts, managers, reconnect_count, failures,
          ws, ws_running, mpc, caller, gave_up, late_calls>>

engine_vars == <<pc, running, active_pairs, init_error, cycle, tpc, tasks, results,
          rvol_signals, idx, trades_df, orderflow_data, imbalance_data,
          all_signals, latest_signals, published, db_cycle, scan_failed,
          save_failed, fetch_count, book_failed, hung, late, broadcast_failed>>

detector_vars == <<signals_history>>

fan_vars == <<fan_universe, fan_in_flight, fan_pc>>

call_vars == <<call, arg, ret>>

load_vars == <<loads>>

ws_vars == <<connected_clients, sock, bcast_pc, bcast_i, bcast_cur, disconnected,
            at_start, received, broadcasts, remove_calls, ws_errors>>

manager_vars == <<max_reconnect_attempts, managers, reconnect_count, failures,
                  ws, ws_running, mpc, caller, gave_up, late_calls>>

rest_vars == <<load_vars, ws_vars, manager_vars>>

-----------------------------------------------------------------------------
(* Bounds of the model *)

\* scan cycles the continuous loop starts
MaxCycles == 2

\* call view: points of a price or CVD series, their largest value, and the
\* largest lookback
MaxPoints == 3

MaxValue == 2

MaxLookback == 2

\* call view: sells at the head of a sample of 21 trades
MaxLeadingSells == 11

\* call view: trades of a sample and their largest amount
MaxTrades == 3

MaxAmount == 2

\* largest universe of the fan-out view
MaxUniverse == 51

\* call view: the latest reading of the clock
MaxClock == 2

\* load view: calls of _load_tradable_pairs, and tickers of a listing
MaxLoads == 2

MaxTickers == 2

\* websocket view: WebSockets that connect, and calls of broadcast_signals
MaxClients == 3

MaxBroadcasts == 2

\* manager view: calls of listen() and connect() made after connect() gave up
MaxLateCalls == 2

\* manager view: managers built after the first one
MaxManagers == 1

-----------------------------------------------------------------------------
(* config.py *)

RVOL_THRESHOLD == 500

MIN_CANDLES_REQUIRED == 100

MAX_CONCURRENT_PAIRS == 50

MIN_VOLUME_USD == 100000

CVD_DIVERGENCE_LOOKBACK == 20

\* 1 + CVD_THRESHOLD, in hundredths
STRONG_RATIO == 130

QUOTE_CURRENCIES == {"USDT"}

EXCLUDED_SYMBOLS == { <<"B","U","S","D">>, <<"U","S","D","C">>, <<"D","A","I">>,
                      <<"T","U","S","D">>, <<"U","S","D","P">>, <<"U","P">>,
                      <<"D","O","W","N">>, <<"B","E","A","R">>, <<"B","U","L","L">> }

\* rvol_signals[:20] in scan_and_save
TOP_CANDIDATES == 20

BB_PERIOD == 20

\* the default of max_reconnect_attempts in WebSocketManager.__init__
MAX_RECONNECT_ATTEMPTS == 5

\* rvol_signals[:10] in scan_cycle_with_imbalance of main_matrix.py
DASHBOARD_CANDIDATES == 10

-----------------------------------------------------------------------------
(* Helpers *)

Range(s) == { s[i] : i \in 1..Len(s) }

Min(a, b) == IF a <= b THEN a ELSE b

\* Python's round() of the exact quotient a / b (b > 0), ties to even
RoundDiv(a, b) ==
    LET q == a \div b
        r == a % b
    IN  IF 2 * r > b \/ (2 * r = b /\ q % 2 = 1) THEN q + 1 ELSE q

\* s[:n]
Take(s, n) == SubSeq(s, 1, Min(n, Len(s)))

\* ex in base (substring test on sequences of letters)
Contains(base, ex) ==
    \E i \in 0..(Len(base) - Len(ex)) : SubSeq(base, i + 1, i + Len(ex)) = ex

\* the permutations of a finite set, as sequences
Orderings(S) ==
    { f \in [1..Cardinality(S) -> S] : \A i, j \in 1..Cardinality(S) : f[i] = f[j] => i = j }

-----------------------------------------------------------------------------
(* The exchange: what the market-data client can answer *)

\* a call of the client raises, never returns, or returns data
FailResp == [status |-> "fail"]

HangResp == [status |-> "hang"]

Ok(x) == [status |-> "ok", data |-> x]

AAA == [base |-> <<"A","A","A">>, quote |-> "USDT"]

JUP == [base |-> <<"J","U","P">>, quote |-> "USDT"]

SOL == [base |-> <<"S","O","L">>, quote |-> "USDT"]

USDC == [base |-> <<"U","S","D","C">>, quote |-> "USDT"]

AAA_BTC == [base |-> <<"A","A","A">>, quote |-> "BTC"]

\* a ticker whose quoteVolume is None
NoVolume == -1

\* fetch_tickers: a full listing, a listing with a ticker whose quoteVolume is
\* None between the two tradable pairs, and a listing with one tradable pair
FullListing ==
    << [symbol |-> USDC, quoteVolume |-> 900000],
       [symbol |-> AAA, quoteVolume |-> 200000],
       [symbol |-> AAA_BTC, quoteVolume |-> 300000],
       [symbol |-> JUP, quoteVolume |-> 500000],
       [symbol |-> SOL, quoteVolume |-> 100000] >>

BrokenListing ==
    << [symbol |-> AAA, quoteVolume |-> 200000],
       [symbol |-> USDC, quoteVolume |-> NoVolume],
       [symbol |-> AAA_BTC, quoteVolume |-> NoVolume],
       [symbol |-> JUP, quoteVolume |-> NoVolume],
       [symbol |-> SOL, quoteVolume |-> NoVolume] >>

ThinListing ==
    << [symbol |-> AAA, quoteVolume |-> 200000],
       [symbol |-> SOL, quoteVolume |-> 99999] >>

TickerResponses == { FailResp, Ok(FullListing), Ok(BrokenListing), Ok(ThinListing) }

Symbols == { AAA, SOL }

\* fetch_ohlcv: the candles of a symbol
EmptyDF == [n |-> 0, volume_last |-> 0, volume_prev_sum |-> 0, squeeze |-> FALSE]

ShortSeries == [n |-> 99, volume_last |-> 600, volume_prev_sum |-> 98, squeeze |-> FALSE]

QuietSeries == [n |-> 100, volume_last |-> 1, volume_prev_sum |-> 99, squeeze |-> FALSE]

SpikeSeries == [n |-> 100, volume_last |-> 5, volume_prev_sum |-> 99, squeeze |-> FALSE]

BigSpikeSeries == [n |-> 100, volume_last |-> 12, volume_prev_sum |-> 99, squeeze |-> FALSE]

CandleResponses ==
    { FailResp, Ok(ShortSeries), Ok(QuietSeries), Ok(SpikeSeries), Ok(BigSpikeSeries) }

-----------------------------------------------------------------------------
(* core/scanner.py *)

\* the tests of the loop of _load_tradable_pairs that come before the volume test
PassesNameFilters(t) ==
    /\ t.symbol.quote \in QUOTE_CURRENCIES
    /\ ~ \E ex \in EXCLUDED_SYMBOLS : Contains(t.symbol.base, ex)

\* the loop of _load_tradable_pairs from ticker i on; the comparison of a
\* quoteVolume of None with MIN_VOLUME_USD raises TypeError and ends the loop
RECURSIVE LoadLoop(_, _, _)
LoadLoop(ap, tickers, i) ==
    IF i > Len(tickers) THEN [pairs |-> ap, error |-> "none"]
    ELSE IF ~PassesNameFilters(tickers[i]) THEN LoadLoop(ap, tickers, i + 1)
    ELSE IF tickers[i].quoteVolume = NoVolume THEN [pairs |-> ap, error |-> "partial"]
    ELSE IF tickers[i].quoteVolume < MIN_VOLUME_USD THEN LoadLoop(ap, tickers, i + 1)
    ELSE LoadLoop(ap \cup {tickers[i].symbol}, tickers, i + 1)

\* _load_tradable_pairs: the exception of fetch_tickers, or of the loop, is
\* logged and swallowed
load_tradable_pairs(ap, resp) ==
    IF resp.status = "fail" THEN [pairs |-> ap, error |-> "tickers"]
    ELSE LoadLoop(ap, resp.data, 1)

\* a variant of fetch_historical_volume without the test of the length
fetch_historical_volume_AnyLength(resp) ==
    IF resp.status = "fail" THEN EmptyDF ELSE resp.data

\* fetch_historical_volume
fetch_historical_volume(resp) ==
    IF resp.status = "fail" THEN EmptyDF
    ELSE IF resp.data.n < MIN_CANDLES_REQUIRED THEN EmptyDF
    ELSE resp.data

\* a variant of calculate_rvol without the test of a zero mean: the division
\* gives infinity (kept as a number above every threshold) or NaN (kept as -1)
calculate_rvol_Unguarded(df) ==
    IF df.n < 2 THEN 0
    ELSE IF df.volume_prev_sum = 0
         THEN (IF df.volume_last > 0 THEN 1000000000 ELSE 0 - 1)
         ELSE RoundDiv(df.volume_last * (df.n - 1) * 100, df.volume_prev_sum)

\* calculate_rvol, in hundredths
calculate_rvol(df) ==
    IF df.n < 2 THEN 0
    ELSE IF df.volume_prev_sum = 0 THEN 0
    ELSE RoundDiv(df.volume_last * (df.n - 1) * 100, df.volume_prev_sum)

\* a scan_pair task: not finished, never finishing, or finished with None or
\* with the anomaly; the model keeps apart the None of a failed fetch
Pending == [alert_type |-> "pending"]

Hung == [alert_type |-> "hung"]

Failed == [alert_type |-> "failed"]

None == [alert_type |-> "none"]

\* scan_pair
scan_pair(symbol, resp) ==
    LET df == fetch_historical_volume(resp)
    IN  IF df.n = 0 THEN (IF resp.status = "fail" THEN Failed ELSE None)
        ELSE IF calculate_rvol(df) >= RVOL_THRESHOLD
             THEN [alert_type |-> "UNUSUAL_VOLUME", symbol |-> symbol,
                   rvol |-> calculate_rvol(df)]
             ELSE None

IsAnomaly(r) == r.alert_type = "UNUSUAL_VOLUME"

\* a variant of GatherSignals in which one failed task fails the gather
GatherSignals_Aborting(ts, res) ==
    IF \E i \in 1..Len(ts) : res[ts[i]] = Failed THEN << >>
    ELSE SelectSeq([i \in 1..Len(ts) |-> res[ts[i]]], IsAnomaly)

\* scan_all_pairs after gather: the results that are dicts, in task order
GatherSignals(ts, res) ==
    SelectSeq([i \in 1..Len(ts) |-> res[ts[i]]], IsAnomaly)

\* a variant of ScanUniverse in which the scan drops the pairs whose fetch failed
ScanUniverse_Pruning(ap, res) == { s \in ap : res[s] # Failed }

\* self.active_pairs after a step of scan_all_pairs: the scan reads the set
\* and never writes it
ScanUniverse(ap, res) == ap

-----------------------------------------------------------------------------
(* core/order_flow.py *)

\* fetch_trades of the client: 21 trades, a sell and then 20 buys at falling
\* prices; and two trades at one price
DivergentTrades ==
    [i \in 1..21 |-> [price |-> 100 - i, amount |-> 1,
                      side |-> IF i = 1 THEN "sell" ELSE "buy"]]

FlatTrades ==
    << [price |-> 100, amount |-> 1, side |-> "buy"],
       [price |-> 100, amount |-> 1, side |-> "sell"] >>

TradeResponses == { FailResp, Ok(DivergentTrades), Ok(FlatTrades) }

\* fetch_order_book of the client: two levels a side; and 11 bids of which
\* the best is 100 times the others
FlatBook ==
    [bids |-> << [price |-> 100, amount |-> 1], [price |-> 99, amount |-> 1] >>,
     asks |-> << [price |-> 101, amount |-> 1], [price |-> 102, amount |-> 1] >>]

IcebergBook ==
    [bids |-> [i \in 1..11 |-> [price |-> 101 - i, amount |-> IF i = 1 THEN 100 ELSE 1]],
     asks |-> << [price |-> 101, amount |-> 1], [price |-> 102, amount |-> 1] >>]

\* the answers the engine's runs draw from
BookResponses == { FailResp, Ok(FlatBook) }

\* fetch_trades: the classified trades, empty when the fetch raised
fetch_trades(resp) ==
    IF resp.status = "fail" THEN << >>
    ELSE [i \in 1..Len(resp.data) |->
            [price |-> resp.data[i].price,
             amount |-> resp.data[i].amount,
             is_buy |-> resp.data[i].side = "buy",
             volume_delta |-> IF resp.data[i].side = "buy"
                              THEN resp.data[i].amount
                              ELSE 0 - resp.data[i].amount]]

RECURSIVE SumTo(_, _)
SumTo(s, i) == IF i = 0 THEN 0 ELSE s[i] + SumTo(s, i - 1)

Sum(s) == SumTo(s, Len(s))

\* a variant of calculate_cvd that returns the deltas as they are
calculate_cvd_Deltas(df) == [i \in 1..Len(df) |-> df[i].volume_delta]

\* calculate_cvd: the cumulative sum of volume_delta
calculate_cvd(df) ==
    LET delta == [i \in 1..Len(df) |-> df[i].volume_delta]
    IN  [i \in 1..Len(df) |-> SumTo(delta, i)]

\* detect_bullish_divergence; iloc[-1] is the last element and iloc[-lookback]
\* the element at Len - lookback + 1
detect_bullish_divergence(price_series, cvd_series, lookback) ==
    IF Len(price_series) < lookback + 1 THEN FALSE
    ELSE LET current_price == price_series[Len(price_series)]
             past_price == price_series[Len(price_series) - lookback + 1]
             current_cvd == cvd_series[Len(cvd_series)]
             past_cvd == cvd_series[Len(cvd_series) - lookback + 1]
         IN  current_price < past_price /\ current_cvd > past_cvd

\* amount > mean + 3 * std over the levels of one side (std with n - 1 in the
\* denominator; NaN, so never exceeded, for a single level), in integers:
\* (n*a - S)^2 * (n-1) > 9 * n * (n*Q - S^2) with S the sum and Q the sum of squares
IsLarge(levels, a) ==
    LET n == Len(levels)
        S == Sum([i \in 1..n |-> levels[i].amount])
        Q == Sum([i \in 1..n |-> levels[i].amount * levels[i].amount])
    IN  /\ n >= 2
        /\ n * a - S > 0
        /\ (n * a - S) * (n * a - S) * (n - 1) > 9 * n * (n * Q - S * S)

LargeLevels(levels, side) ==
    LET tagged == [i \in 1..Len(levels) |->
                     [side |-> side, price |-> levels[i].price, amount |-> levels[i].amount]]
        large(l) == IsLarge(levels, l.amount)
    IN  SelectSeq(tagged, large)

\* a variant of detect_iceberg_orders that takes the mean and the deviation
\* over the levels of both sides together
detect_iceberg_orders_Pooled(resp) ==
    IF resp.status = "fail" THEN << >>
    ELSE LET all == resp.data.bids \o resp.data.asks
             tag(levels, side) ==
                 [i \in 1..Len(levels) |->
                    [side |-> side, price |-> levels[i].price, amount |-> levels[i].amount]]
             large(l) == IsLarge(all, l.amount)
         IN  SelectSeq(tag(resp.data.bids, "BID"), large)
                \o SelectSeq(tag(resp.data.asks, "ASK"), large)

\* detect_iceberg_orders: the large bids, then the large asks; the empty list
\* when the order-book fetch raised
detect_iceberg_orders(resp) ==
    IF resp.status = "fail" THEN << >>
    ELSE LargeLevels(resp.data.bids, "BID") \o LargeLevels(resp.data.asks, "ASK")

NoData(symbol) == [symbol |-> symbol, status |-> "no_data"]

\* analyze_pair from step 2 on, given its trades and the answer of the order book
\* (status "ok" stands for a result that carries no status key)
AnalyzeResult(symbol, df, book_resp) ==
    LET cvd == calculate_cvd(df)
        has_divergence ==
            detect_bullish_divergence([i \in 1..Len(df) |-> df[i].price], cvd,
                                      CVD_DIVERGENCE_LOOKBACK)
        icebergs == detect_iceberg_orders(book_resp)
        total_buys == Sum([i \in 1..Len(df) |-> IF df[i].is_buy THEN df[i].amount ELSE 0])
        total_sells == Sum([i \in 1..Len(df) |-> IF df[i].is_buy THEN 0 ELSE df[i].amount])
        strong == /\ has_divergence
                  /\ total_sells > 0
                  /\ total_buys * 100 > STRONG_RATIO * total_sells
    IN  [symbol |-> symbol,
         status |-> "ok",
         cvd_current |-> cvd[Len(cvd)],
         bullish_divergence |-> has_divergence,
         buy_sell_ratio |-> IF total_sells > 0
                            THEN RoundDiv(total_buys * 100, total_sells) ELSE 0,
         icebergs_detected |-> Len(icebergs),
         signal_strength |-> IF strong THEN "STRONG_BUY" ELSE "none"]

\* analyze_pair, given the answers to its two fetches
analyze_pair(symbol, trades_resp, book_resp) ==
    IF fetch_trades(trades_resp) = << >> THEN NoData(symbol)
    ELSE AnalyzeResult(symbol, fetch_trades(trades_resp), book_resp)

-----------------------------------------------------------------------------
(* core/imbalance.py *)

\* threshold * 100 of _detect_wall, and the levels it looks at
WALL_THRESHOLD_PCT == 30

WALL_LEVELS == 10

\* depth_percentage of get_orderbook_imbalance, in percent
DEPTH_PERCENTAGE == 1

\* a variant of relevant_bids that keeps every bid of the book
relevant_bids_All(book) == book.bids

\* relevant_bids: the bids with price >= mid_price - price_range, where
\* mid_price = (best_bid + best_ask) / 2 and price_range = mid_price / 100
relevant_bids(book) ==
    LET twice_mid == book.bids[1].price + book.asks[1].price
        in_range(l) == l.price * 200 >= twice_mid * (100 - DEPTH_PERCENTAGE)
    IN  SelectSeq(book.bids, in_range)

\* relevant_asks: the asks with price <= mid_price + price_range
relevant_asks(book) ==
    LET twice_mid == book.bids[1].price + book.asks[1].price
        in_range(l) == l.price * 200 <= twice_mid * (100 + DEPTH_PERCENTAGE)
    IN  SelectSeq(book.asks, in_range)

TotalVolume(levels) == Sum([i \in 1..Len(levels) |-> levels[i].amount])

\* _detect_wall returns None
NoWall == [detected |-> FALSE, price |-> 0, amount |-> 0]

\* the loop of _detect_wall from level i on: the first of the first 10 levels
\* whose amount / total_volume * 100 is at least 30
RECURSIVE WallFrom(_, _, _)
WallFrom(orders, total_volume, i) ==
    IF i > Min(Len(orders), WALL_LEVELS) THEN NoWall
    ELSE IF orders[i].amount * 100 >= WALL_THRESHOLD_PCT * total_volume
         THEN [detected |-> TRUE, price |-> orders[i].price, amount |-> orders[i].amount]
         ELSE WallFrom(orders, total_volume, i + 1)

\* _detect_wall
detect_wall(orders, total_volume) ==
    IF orders = << >> \/ total_volume = 0 THEN NoWall
    ELSE WallFrom(orders, total_volume, 1)

\* _interpret_pressure of the imbalance num / den percent (den > 0)
interpret_pressure(num, den) ==
    IF num > 30 * den THEN "COMPRA FUERTE"
    ELSE IF num > 10 * den THEN "COMPRA MODERADA"
    ELSE IF num < (0 - 30) * den THEN "VENTA FUERTE"
    ELSE IF num < (0 - 10) * den THEN "VENTA MODERADA"
    ELSE "NEUTRAL"

\* get_orderbook_imbalance from the mid price on, for a book with bids and
\* asks; imbalance_pct is reported in hundredths, rounded as round(x, 2)
ImbalanceResult(symbol, book) ==
    LET total_bid_volume == TotalVolume(relevant_bids(book))
        total_ask_volume == TotalVolume(relevant_asks(book))
        total_volume == total_bid_volume + total_ask_volume
        num == IF total_volume = 0 THEN 0
               ELSE (total_bid_volume - total_ask_volume) * 100
        den == IF total_volume = 0 THEN 1 ELSE total_volume
    IN  [symbol |-> symbol,
         status |-> "ok",
         imbalance_pct |-> RoundDiv(num * 100, den),
         total_bid_volume |-> total_bid_volume,
         total_ask_volume |-> total_ask_volume,
         bid_wall |-> detect_wall(book.bids, total_bid_volume),
         ask_wall |-> detect_wall(book.asks, total_ask_volume),
         pressure |-> interpret_pressure(num, den)]

\* get_orderbook_imbalance (status "ok" stands for a result that carries no
\* status key)
get_orderbook_imbalance(symbol, resp) ==
    IF resp.status = "fail" THEN [symbol |-> symbol, status |-> "error"]
    ELSE IF resp.data.bids = << >> \/ resp.data.asks = << >>
         THEN [symbol |-> symbol, status |-> "no_data"]
         ELSE ImbalanceResult(symbol, resp.data)

ImbalanceResponses == { FailResp, Ok(FlatBook) }

-----------------------------------------------------------------------------
(* core/signals.py *)

\* dict.get(key, default)
Get(d, key, default) == IF key \in DOMAIN d THEN d[key] ELSE default

\* detect_bb_squeeze of indicators.py: False below BB_PERIOD candles, else
\* whether the last bandwidth of the frame is under the threshold
detect_bb_squeeze(df) == df.n >= BB_PERIOD /\ df.squeeze

\* the points of calculate_signal_score before the cap
ScorePoints(rvol_signal, orderflow_analysis, price_df) ==
    LET p1 == IF rvol_signal # None /\ Get(rvol_signal, "rvol", 0) >= 500
              THEN (IF rvol_signal.rvol >= 1000 THEN 30
                    ELSE IF rvol_signal.rvol >= 700 THEN 25 ELSE 20)
              ELSE 0
        p2 == IF Get(orderflow_analysis, "bullish_divergence", FALSE)
              THEN 40 + (IF Get(orderflow_analysis, "buy_sell_ratio", 100) > 150
                         THEN 5 ELSE 0)
              ELSE 0
        p3 == IF price_df.n # 0 /\ detect_bb_squeeze(price_df) THEN 20 ELSE 0
        p4 == IF Get(orderflow_analysis, "icebergs_detected", 0) > 0 THEN 10 ELSE 0
    IN  p1 + p2 + p3 + p4

\* a variant of calculate_signal_score that returns the sum without the cap
calculate_signal_score_Uncapped(rvol_signal, orderflow_analysis, price_df) ==
    ScorePoints(rvol_signal, orderflow_analysis, price_df)

\* a variant of calculate_signal_score without the 5 points of the ratio
calculate_signal_score_NoBonus(rvol_signal, orderflow_analysis, price_df) ==
    LET bonus == IF /\ Get(orderflow_analysis, "bullish_divergence", FALSE)
                    /\ Get(orderflow_analysis, "buy_sell_ratio", 100) > 150
                 THEN 5 ELSE 0
    IN  Min(ScorePoints(rvol_signal, orderflow_analysis, price_df) - bonus, 100)

\* calculate_signal_score; rvol_signal is None or the anomaly of the scan, and
\* a key the order-flow result lacks reads as its default
calculate_signal_score(rvol_signal, orderflow_analysis, price_df) ==
    Min(ScorePoints(rvol_signal, orderflow_analysis, price_df), 100)

\* a variant of classify_signal whose bands start above their breakpoint
classify_signal_Exclusive(score) ==
    IF score > 80 THEN "DISPARO DE FRANCOTIRADOR"
    ELSE IF score > 60 THEN "VIGILANCIA ESTRECHA"
    ELSE IF score > 40 THEN "ACUMULACION SILENCIOSA"
    ELSE "RUIDO"

\* classify_signal
classify_signal(score) ==
    IF score >= 80 THEN "DISPARO DE FRANCOTIRADOR"
    ELSE IF score >= 60 THEN "VIGILANCIA ESTRECHA"
    ELSE IF score >= 40 THEN "ACUMULACION SILENCIOSA"
    ELSE "RUIDO"

\* a variant of _get_action_recommendation whose bands start above their
\* breakpoint
get_action_recommendation_Exclusive(score) ==
    IF score > 80 THEN "COMPRA INMEDIATA"
    ELSE IF score > 60 THEN "PREPARAR ENTRADA"
    ELSE IF score > 40 THEN "ACUMULAR GRADUALMENTE"
    ELSE "SIN ACCION"

\* _get_action_recommendation
get_action_recommendation(score) ==
    IF score >= 80 THEN "COMPRA INMEDIATA"
    ELSE IF score >= 60 THEN "PREPARAR ENTRADA"
    ELSE IF score >= 40 THEN "ACUMULAR GRADUALMENTE"
    ELSE "SIN ACCION"

\* generate_signal up to the append to the history: the Signal, kept by its
\* symbol, timestamp, score, classification and action; now is what
\* datetime.now() reads
generate_signal(symbol, rvol_data, orderflow, price_df, now) ==
    LET score == calculate_signal_score(rvol_data, orderflow, price_df)
    IN  [symbol |-> symbol,
         timestamp |-> now,
         score |-> score,
         classification |-> classify_signal(score),
         action |-> get_action_recommendation(score)]

-----------------------------------------------------------------------------
(* api_server.py: the engine *)

Unset == [status |-> "unset"]

RECURSIVE InsertDesc(_, _)
InsertDesc(sorted, x) ==
    IF sorted = << >> THEN << x >>
    ELSE IF Head(sorted).score >= x.score
         THEN << Head(sorted) >> \o InsertDesc(Tail(sorted), x)
         ELSE << x >> \o sorted

RECURSIVE StableSortDesc(_)
StableSortDesc(signals) ==
    IF signals = << >> THEN << >>
    ELSE InsertDesc(StableSortDesc(SubSeq(signals, 1, Len(signals) - 1)),
                    signals[Len(signals)])

\* a variant of SortByScore that leaves the list as it was built
SortByScore_Unsorted(signals) == signals

\* sorted(all_signals, key=score, reverse=True): a stable sort, descending
SortByScore(signals) == StableSortDesc(signals)

\* the candidates of the cycle: rvol_signals[:20]
Candidates(signals) == Take(signals, TOP_CANDIDATES)

\* the candidates of a cycle of the dashboard engine: rvol_signals[:10]
DashboardCandidates(signals) == Take(signals, DASHBOARD_CANDIDATES)

\* the event loop runs the task: while the process serves, and after
\* shutdown() for as long as the loop lives
Alive == pc \in {"serving", "closed"}

\* datetime.now(): the clock, read to the scan cycle
Now == cycle

\* a fetch or a write issued once the data clients are closed
Late(what) == IF pc = "closed" THEN late \cup what ELSE late

Init ==
    /\ pc = "start"
    /\ running = FALSE
    /\ active_pairs = {}
    /\ init_error = "none"
    /\ cycle = 0
    /\ tpc = "none"
    /\ tasks = << >>
    /\ results = << >>
    /\ rvol_signals = << >>
    /\ idx = 0
    /\ trades_df = << >>
    /\ orderflow_data = Unset
    /\ imbalance_data = Unset
    /\ all_signals = << >>
    /\ latest_signals = << >>
    /\ published = << >>
    /\ db_cycle = << >>
    /\ scan_failed = {}
    /\ save_failed = {}
    /\ fetch_count = [s \in Symbols |-> 0]
    /\ book_failed = FALSE
    /\ hung = FALSE
    /\ late = {}
    /\ broadcast_failed = FALSE
    /\ signals_history = << >>
    /\ fan_universe = 0
    /\ fan_in_flight = 0
    /\ fan_pc = "idle"
    /\ call = "none"
    /\ arg = << >>
    /\ ret = << >>
    /\ loads = 0
    /\ connected_clients = << >>
    /\ sock = [c \in 1..MaxClients |-> "none"]
    /\ bcast_pc = "idle"
    /\ bcast_i = 0
    /\ bcast_cur = 0
    /\ disconnected = << >>
    /\ at_start = {}
    /\ received = {}
    /\ broadcasts = 0
    /\ remove_calls = [c \in 1..MaxClients |-> 0]
    /\ ws_errors = {}
    /\ max_reconnect_attempts = MAX_RECONNECT_ATTEMPTS
    /\ managers = 0
    /\ reconnect_count = 0
    /\ failures = 0
    /\ ws = "none"
    /\ ws_running = FALSE
    /\ mpc = "idle"
    /\ caller = "none"
    /\ gave_up = FALSE
    /\ late_calls = 0

\* lifespan start-up: OraculoAPIEngine.initialize, MarketScanner.initialize
\* (load_markets, _load_tradable_pairs), then create_task(run_continuous).
\* An exception of load_markets is raised again and ends the start-up.
Startup ==
    /\ pc = "start"
    /\ \E markets_ok \in BOOLEAN, resp \in TickerResponses :
         IF ~markets_ok
         THEN /\ pc' = "dead"
              /\ init_error' = "markets"
              /\ UNCHANGED <<active_pairs, tpc>>
         ELSE /\ active_pairs' = load_tradable_pairs(active_pairs, resp).pairs
              /\ init_error' = load_tradable_pairs(active_pairs, resp).error
              /\ pc' = "serving"
              /\ tpc' = "created"
    /\ UNCHANGED <<running, cycle, tasks, results, rvol_signals, idx, trades_df,
                   orderflow_data, imbalance_data, all_signals, latest_signals,
                   published, db_cycle, scan_failed, save_failed, fetch_count,
                   book_failed, hung, late, broadcast_failed, detector_vars, fan_vars, call_vars, rest_vars>>

\* scan_and_save up to its first await: scan_all_pairs builds one scan_pair
\* task per active pair, in the iteration order of the set, and gathers them;
\* every task runs to its fetch_ohlcv.  With no active pair gather returns
\* the empty list and scan_and_save returns [].
LaunchCycle ==
    /\ cycle' = cycle + 1
    /\ \E order \in Orderings(active_pairs) : tasks' = order
    /\ results' = [s \in active_pairs |-> Pending]
    /\ fetch_count' = [s \in Symbols |-> IF s \in active_pairs THEN 1 ELSE 0]
    /\ tpc' = IF active_pairs = {} THEN "sleep" ELSE "await_gather"
    /\ late' = IF active_pairs = {} THEN late ELSE Late({"fetch"})
    /\ rvol_signals' = << >>
    /\ idx' = 0
    /\ all_signals' = << >>
    /\ published' = << >>
    /\ db_cycle' = << >>
    /\ scan_failed' = {}
    /\ save_failed' = {}
    /\ orderflow_data' = Unset
    /\ imbalance_data' = Unset
    /\ book_failed' = FALSE
    /\ broadcast_failed' = FALSE
    /\ UNCHANGED <<pc, active_pairs, init_error, trades_df, latest_signals, hung,
                   detector_vars, fan_vars, call_vars, rest_vars>>

\* run_continuous, first run of the task: running = True, then the first cycle
TaskStart ==
    /\ Alive
    /\ tpc = "created"
    /\ cycle < MaxCycles
    /\ running' = TRUE
    /\ LaunchCycle

\* a scan_pair task finishes (or its fetch never returns); the last one to
\* finish lets gather return: scan_all_pairs keeps the anomalies, and
\* scan_and_save returns [] on none or starts on the first candidate
ScanPairReturn ==
    /\ Alive
    /\ tpc = "await_gather"
    /\ \E s \in active_pairs, resp \in CandleResponses \cup {HangResp} :
         /\ results[s] = Pending
         /\ LET res == [results EXCEPT ![s] = IF resp.status = "hang" THEN Hung
                                              ELSE scan_pair(s, resp)]
                done == \A t \in active_pairs : res[t] \notin {Pending, Hung}
                signals == GatherSignals(tasks, res)
            IN  /\ results' = res
                /\ active_pairs' = ScanUniverse(active_pairs, res)
                /\ scan_failed' = IF res[s] = Failed THEN scan_failed \cup {s}
                                  ELSE scan_failed
                /\ IF ~done
                   THEN UNCHANGED <<tpc, rvol_signals, idx, tasks, late>>
                   ELSE /\ rvol_signals' = signals
                        /\ tasks' = << >>
                        /\ IF signals = << >>
                           THEN /\ tpc' = "sleep"
                                /\ UNCHANGED <<idx, late>>
                           ELSE /\ tpc' = "await_trades"
                                /\ idx' = 1
                                /\ late' = Late({"fetch"})
    /\ UNCHANGED <<pc, running, init_error, cycle, trades_df,
                   orderflow_data, imbalance_data, all_signals, latest_signals,
                   published, db_cycle, save_failed, fetch_count, book_failed,
                   hung, broadcast_failed, detector_vars, fan_vars, call_vars, rest_vars>>

\* analyze_pair, the answer to fetch_trades: no trades give the no_data
\* result and scan_and_save goes on to get_orderbook_imbalance; else
\* analyze_pair computes the CVD and goes on to detect_iceberg_orders
TradesReturn ==
    /\ Alive
    /\ tpc = "await_trades"
    /\ ~hung
    /\ \E resp \in TradeResponses \cup {HangResp} :
         IF resp.status = "hang"
         THEN /\ hung' = TRUE
              /\ UNCHANGED <<tpc, trades_df, orderflow_data, book_failed, late>>
         ELSE /\ hung' = FALSE
              /\ late' = Late({"fetch"})
              /\ IF fetch_trades(resp) = << >>
                 THEN /\ orderflow_data' = NoData(rvol_signals[idx].symbol)
                      /\ book_failed' = FALSE
                      /\ tpc' = "await_imbalance"
                      /\ UNCHANGED trades_df
                 ELSE /\ trades_df' = fetch_trades(resp)
                      /\ tpc' = "await_book"
                      /\ UNCHANGED <<orderflow_data, book_failed>>
    /\ UNCHANGED <<pc, running, active_pairs, init_error, cycle, tasks, results,
                   rvol_signals, idx, imbalance_data, all_signals, latest_signals,
                   published, db_cycle, scan_failed, save_failed, fetch_count,
                   broadcast_failed, detector_vars, fan_vars, call_vars, rest_vars>>

\* analyze_pair, the answer to fetch_order_book in detect_iceberg_orders:
\* the result is built and scan_and_save goes on to get_orderbook_imbalance
BookReturn ==
    /\ Alive
    /\ tpc = "await_book"
    /\ ~hung
    /\ \E resp \in BookResponses \cup {HangResp} :
         IF resp.status = "hang"
         THEN /\ hung' = TRUE
              /\ UNCHANGED <<tpc, trades_df, orderflow_data, book_failed, late>>
         ELSE /\ hung' = FALSE
              /\ orderflow_data' = AnalyzeResult(rvol_signals[idx].symbol, trades_df, resp)
              /\ book_failed' = (resp.status = "fail")
              /\ trades_df' = << >>
              /\ tpc' = "await_imbalance"
              /\ late' = Late({"fetch"})
    /\ UNCHANGED <<pc, running, active_pairs, init_error, cycle, tasks, results,
                   rvol_signals, idx, imbalance_data, all_signals, latest_signals,
                   published, db_cycle, scan_failed, save_failed, fetch_count,
                   broadcast_failed, detector_vars, fan_vars, call_vars, rest_vars>>

\* get_orderbook_imbalance, the answer to fetch_order_book; scan_and_save
\* goes on to fetch_historical_volume of the candidate
ImbalanceReturn ==
    /\ Alive
    /\ tpc = "await_imbalance"
    /\ ~hung
    /\ \E resp \in ImbalanceResponses \cup {HangResp} :
         IF resp.status = "hang"
         THEN /\ hung' = TRUE
              /\ UNCHANGED <<tpc, imbalance_data, fetch_count, late>>
         ELSE /\ hung' = FALSE
              /\ imbalance_data' = get_orderbook_imbalance(rvol_signals[idx].symbol, resp)
              /\ fetch_count' = [fetch_count EXCEPT ![rvol_signals[idx].symbol] = @ + 1]
              /\ tpc' = "await_price"
              /\ late' = Late({"fetch"})
    /\ UNCHANGED <<pc, running, active_pairs, init_error, cycle, tasks, results,
                   rvol_signals, idx, trades_df, orderflow_data, all_signals,
                   latest_signals, published, db_cycle, scan_failed, save_failed,
                   book_failed, broadcast_failed, detector_vars, fan_vars, call_vars, rest_vars>>

\* a variant of Broadcast that notifies once more
Broadcast_Twice(signals) == Append(Append(published, signals), signals)

\* broadcast_signals is called with the list
Broadcast(signals) == Append(published, signals)

\* the rest of the loop body for the candidate, from the answer to
\* fetch_historical_volume: generate_signal, signal['imbalance'],
\* db.save_signal, all_signals.append; then the next candidate's analyze_pair,
\* or after the last one the cache update, broadcast_signals and the return.
\* An exception of db.save_signal ends scan_and_save in its except clause,
\* and so does the ValueError broadcast_signals raises when its clean-up
\* removes a client the endpoint handler has removed (the websocket view).
PriceReturn ==
    /\ Alive
    /\ tpc = "await_price"
    /\ ~hung
    /\ \E resp \in CandleResponses \cup {HangResp}, save_ok \in BOOLEAN,
          broadcast_ok \in BOOLEAN :
         IF resp.status = "hang"
         THEN /\ hung' = TRUE
              /\ save_ok
              /\ broadcast_ok
              /\ UNCHANGED <<tpc, idx, all_signals, latest_signals, published,
                             db_cycle, save_failed, late, signals_history,
                             broadcast_failed>>
         ELSE LET symbol == rvol_signals[idx].symbol
                  signal == generate_signal(symbol, rvol_signals[idx], orderflow_data,
                                            fetch_historical_volume(resp), Now)
                  more == idx < Len(Candidates(rvol_signals))
              IN  /\ hung' = FALSE
                  /\ signals_history' = Append(signals_history, signal)
                  /\ IF ~save_ok
                     THEN /\ save_failed' = save_failed \cup {symbol}
                          /\ broadcast_ok
                          /\ tpc' = "sleep"
                          /\ late' = Late({"write"})
                          /\ UNCHANGED <<idx, all_signals, latest_signals, published,
                                         db_cycle, broadcast_failed>>
                     ELSE /\ db_cycle' = Append(db_cycle, signal)
                          /\ all_signals' = Append(all_signals, signal)
                          /\ UNCHANGED save_failed
                          /\ IF more
                             THEN /\ idx' = idx + 1
                                  /\ broadcast_ok
                                  /\ tpc' = "await_trades"
                                  /\ late' = Late({"write", "fetch"})
                                  /\ UNCHANGED <<latest_signals, published,
                                                 broadcast_failed>>
                             ELSE /\ latest_signals' = SortByScore(all_signals')
                                  /\ published' = Broadcast(latest_signals')
                                  /\ broadcast_failed' = ~broadcast_ok
                                  /\ tpc' = "sleep"
                                  /\ late' = Late({"write"})
                                  /\ UNCHANGED idx
    /\ UNCHANGED <<pc, running, active_pairs, init_error, cycle, tasks, results,
                   rvol_signals, trades_df, orderflow_data, imbalance_data,
                   scan_failed, fetch_count, book_failed, fan_vars, call_vars, rest_vars>>

\* run_continuous after asyncio.sleep: the loop test, then the next cycle or
\* the end of the task
SleepReturn ==
    /\ Alive
    /\ tpc = "sleep"
    /\ IF running
       THEN /\ cycle < MaxCycles
            /\ LaunchCycle
            /\ UNCHANGED running
       ELSE /\ tpc' = "exit"
            /\ UNCHANGED <<running, active_pairs, init_error, cycle, tasks, results,
                           rvol_signals, idx, trades_df, orderflow_data,
                           imbalance_data, all_signals, latest_signals, published,
                           db_cycle, scan_failed, save_failed, fetch_count,
                           book_failed, hung, late, broadcast_failed, detector_vars, fan_vars, call_vars, rest_vars>>
            /\ UNCHANGED pc

\* lifespan shutdown: OraculoAPIEngine.shutdown sets running = False and
\* closes the three exchange clients (three awaits with no other change of
\* state between them); the scan task is neither awaited nor cancelled
Shutdown ==
    /\ pc = "serving"
    /\ tpc \notin {"none", "created"}
    /\ running' = FALSE
    /\ pc' = "closed"
    /\ UNCHANGED <<active_pairs, init_error, cycle, tpc, tasks, results,
                   rvol_signals, idx, trades_df, orderflow_data, imbalance_data,
                   all_signals, latest_signals, published, db_cycle, scan_failed,
                   save_failed, fetch_count, book_failed, hung, late, broadcast_failed, detector_vars, fan_vars, call_vars, rest_vars>>

TaskStep ==
    \/ TaskStart
    \/ ScanPairReturn
    \/ TradesReturn
    \/ BookReturn
    \/ ImbalanceReturn
    \/ PriceReturn
    \/ SleepReturn

Next ==
    \/ Startup
    \/ TaskStart
    \/ ScanPairReturn
    \/ TradesReturn
    \/ BookReturn
    \/ ImbalanceReturn
    \/ PriceReturn
    \/ SleepReturn
    \/ Shutdown

Spec == Init /\ [][Next]_vars

\* the event loop runs a task whose awaited answer has arrived
FairSpec == Spec /\ WF_vars(TaskStep)

-----------------------------------------------------------------------------
(* core/scanner.py: the fan-out of scan_all_pairs over a large universe.
   The tasks are counted, not named: gather is awaited on one scan_pair
   coroutine per active pair, and each of them runs to its fetch_ohlcv. *)

\* _load_tradable_pairs leaves a universe of some size
FanLoad ==
    /\ fan_pc = "idle"
    /\ \E n \in 0..MaxUniverse : fan_universe' = n
    /\ fan_pc' = "loaded"
    /\ UNCHANGED <<fan_in_flight, engine_vars, detector_vars, call_vars, rest_vars>>

\* tasks = [self.scan_pair(symbol) for symbol in self.active_pairs];
\* asyncio.gather(*tasks) schedules every one of them
FanGather ==
    /\ fan_pc = "loaded"
    /\ fan_in_flight' = fan_universe
    /\ fan_pc' = "gathering"
    /\ UNCHANGED <<fan_universe, engine_vars, detector_vars, call_vars, rest_vars>>

\* one scan_pair task finishes
FanReturn ==
    /\ fan_pc = "gathering"
    /\ fan_in_flight > 0
    /\ fan_in_flight' = fan_in_flight - 1
    /\ UNCHANGED <<fan_universe, fan_pc, engine_vars, detector_vars, call_vars, rest_vars>>

\* gather returns once no task is left
FanDone ==
    /\ fan_pc = "gathering"
    /\ fan_in_flight = 0
    /\ fan_pc' = "loaded"
    /\ UNCHANGED <<fan_universe, fan_in_flight, engine_vars, detector_vars, call_vars, rest_vars>>

FanNext ==
    \/ FanLoad
    \/ FanGather
    \/ FanReturn
    \/ FanDone

FanOutSpec == Init /\ [][FanNext]_vars

-----------------------------------------------------------------------------
(* The call view: one call of one of the analyzers' functions, on an answer
   of the exchange drawn from a small set *)

\* fetch_ohlcv: series of one candle, of one candle less than the minimum, of
\* the minimum and of one more, with a last volume and a sum of the volumes
\* before it
LastVolumes == { 0, 1, 4994, 4996, 5000, 60000 }

PrevSums == { 0, 99, 99000 }

CandleSeries ==
    { [n |-> n, volume_last |-> v, volume_prev_sum |-> IF n = 1 THEN 0 ELSE p,
       squeeze |-> FALSE] :
        n \in { 1, MIN_CANDLES_REQUIRED - 1, MIN_CANDLES_REQUIRED,
                MIN_CANDLES_REQUIRED + 1 },
        v \in LastVolumes, p \in PrevSums }

\* scan_pair(symbol) with the candles the exchange answers
CallScanPair ==
    /\ call = "none"
    /\ \E df \in CandleSeries :
         /\ call' = "scan_pair"
         /\ arg' = df
         /\ ret' = scan_pair(AAA, Ok(df))
    /\ UNCHANGED <<engine_vars, detector_vars, fan_vars, rest_vars>>

\* calculate_rvol(df)
CallCalculateRvol ==
    /\ call = "none"
    /\ \E df \in CandleSeries :
         /\ call' = "calculate_rvol"
         /\ arg' = df
         /\ ret' = [rvol |-> calculate_rvol(df)]
    /\ UNCHANGED <<engine_vars, detector_vars, fan_vars, rest_vars>>

SeqsUpTo(S, n) == UNION { [1..k -> S] : k \in 0..n }

\* detect_bullish_divergence(price_series, cvd_series, lookback) on two series
\* of one length
CallDetectBullishDivergence ==
    /\ call = "none"
    /\ \E prices \in SeqsUpTo(1..MaxValue, MaxPoints),
          cvds \in SeqsUpTo(1..MaxValue, MaxPoints),
          lookback \in 1..MaxLookback :
         /\ Len(cvds) = Len(prices)
         /\ call' = "detect_bullish_divergence"
         /\ arg' = [price_series |-> prices, cvd_series |-> cvds,
                    lookback |-> lookback]
         /\ ret' = [divergence |-> detect_bullish_divergence(prices, cvds, lookback)]
    /\ UNCHANGED <<engine_vars, detector_vars, fan_vars, rest_vars>>

\* fetch_trades of the client: a sample of buys and sells
TradeSamples ==
    SeqsUpTo([price : {100}, amount : 1..MaxAmount, side : {"buy", "sell"}], MaxTrades)

\* calculate_cvd(fetch_trades(symbol)) on a sample that is not empty
CallCalculateCvd ==
    /\ call = "none"
    /\ \E trades \in TradeSamples \ { << >> } :
         /\ call' = "calculate_cvd"
         /\ arg' = [trades |-> trades]
         /\ ret' = [cvd |-> calculate_cvd(fetch_trades(Ok(trades)))]
    /\ UNCHANGED <<engine_vars, detector_vars, fan_vars, rest_vars>>

\* one side of an order book by the sizes of its levels, best level first:
\* the prices fall from 1000 for bids and rise from 1001 for asks
Side(sizes, side) ==
    [i \in 1..Len(sizes) |->
        [price |-> IF side = "BID" THEN 1001 - i ELSE 1000 + i, amount |-> sizes[i]]]

\* the sizes of a side: no level, one level, two levels, 11 and 12 levels
\* with none, one or two far larger than the others
SideSizes ==
    { << >>, << 5 >>, << 1, 9 >>,
      [i \in 1..11 |-> 1],
      [i \in 1..11 |-> IF i = 1 THEN 100 ELSE 1],
      [i \in 1..12 |-> IF i = 3 THEN 100 ELSE 1],
      [i \in 1..12 |-> IF i \in {1, 2} THEN 100 ELSE 1] }

\* fetch_order_book of the client
OrderBooks ==
    { [bids |-> Side(b, "BID"), asks |-> Side(a, "ASK")] : b \in SideSizes, a \in SideSizes }

\* detect_iceberg_orders(symbol) with the book the exchange answers
CallDetectIcebergOrders ==
    /\ call = "none"
    /\ \E book \in OrderBooks :
         /\ call' = "detect_iceberg_orders"
         /\ arg' = book
         /\ ret' = [icebergs |-> detect_iceberg_orders(Ok(book))]
    /\ UNCHANGED <<engine_vars, detector_vars, fan_vars, rest_vars>>

\* fetch_trades of the client: 21 trades of size 1 at falling or rising
\* prices, the first k of them sells and the others buys
TradesWith(k, falling) ==
    [i \in 1..21 |-> [price |-> IF falling THEN 100 - i ELSE 100 + i,
                      amount |-> 1,
                      side |-> IF i <= k THEN "sell" ELSE "buy"]]

\* analyze_pair(symbol) with the trades and the book the exchange answers
CallAnalyzePair ==
    /\ call = "none"
    /\ \E k \in 0..MaxLeadingSells, falling \in BOOLEAN, book_resp \in BookResponses :
         /\ call' = "analyze_pair"
         /\ arg' = [trades |-> TradesWith(k, falling), book_resp |-> book_resp]
         /\ ret' = analyze_pair(AAA, Ok(TradesWith(k, falling)), book_resp)
    /\ UNCHANGED <<engine_vars, detector_vars, fan_vars, rest_vars>>

Level(price, amount) == [price |-> price, amount |-> amount]

\* bids of a book, best first: one level of several sizes; a small best bid
\* above a large bid far below; a large best bid above nine smaller ones; ten
\* equal levels above a large eleventh; a best bid far below the asks
BidSides ==
    { << >>,
      << Level(1000, 0) >>, << Level(1000, 2) >>, << Level(1000, 55) >>,
      << Level(1000, 65) >>, << Level(1000, 70) >>, << Level(1000, 65002) >>,
      << Level(1000, 1), Level(900, 9) >>,
      [i \in 1..10 |-> Level(1001 - i, IF i = 1 THEN 35 ELSE 7)],
      [i \in 1..12 |-> Level(1001 - i, IF i = 11 THEN 100 ELSE 1)],
      << Level(900, 5) >> }

\* asks of a book, best first
AskSides ==
    { << >>,
      << Level(1001, 0) >>, << Level(1001, 1) >>, << Level(1001, 30) >>,
      << Level(1001, 35) >>, << Level(1001, 45) >>, << Level(1001, 34998) >>,
      << Level(1001, 3), Level(1002, 3), Level(1100, 50) >> }

\* get_orderbook_imbalance(symbol) with the book the exchange answers
CallGetOrderbookImbalance ==
    /\ call = "none"
    /\ \E bids \in BidSides, asks \in AskSides :
         /\ call' = "get_orderbook_imbalance"
         /\ arg' = [bids |-> bids, asks |-> asks]
         /\ ret' = get_orderbook_imbalance(AAA, Ok([bids |-> bids, asks |-> asks]))
    /\ UNCHANGED <<engine_vars, detector_vars, fan_vars, rest_vars>>

\* the rvol_signal handed to the detector: None, or an anomaly whose rvol
\* lies on either side of a tier of the score
RvolValues == { 499, 500, 699, 700, 999, 1000 }

RvolSignals ==
    { None } \cup { [alert_type |-> "UNUSUAL_VOLUME", symbol |-> AAA, rvol |-> r] :
                      r \in RvolValues }

\* the order-flow results handed to the detector: the two tagged results of
\* analyze_pair and results with their metrics
RatioValues == { 0, 150, 151 }

OrderflowResults ==
    { NoData(AAA), [symbol |-> AAA, status |-> "error"] }
      \cup { [symbol |-> AAA, status |-> "ok", cvd_current |-> 0,
               bullish_divergence |-> d, buy_sell_ratio |-> r,
               icebergs_detected |-> i, signal_strength |-> "none"] :
               d \in BOOLEAN, r \in RatioValues, i \in { 0, 1 } }

\* the price frames handed to the detector: empty, shorter than BB_PERIOD
\* with narrow bands, and full with wide or narrow bands
PriceFrames ==
    { EmptyDF,
      [n |-> BB_PERIOD - 1, volume_last |-> 1, volume_prev_sum |-> 18, squeeze |-> TRUE],
      [n |-> 100, volume_last |-> 1, volume_prev_sum |-> 99, squeeze |-> FALSE],
      [n |-> 100, volume_last |-> 1, volume_prev_sum |-> 99, squeeze |-> TRUE] }

\* calculate_signal_score(rvol_signal, orderflow_analysis, price_df)
CallCalculateSignalScore ==
    /\ call = "none"
    /\ \E rvol_signal \in RvolSignals, orderflow_analysis \in OrderflowResults,
          price_df \in PriceFrames :
         /\ call' = "calculate_signal_score"
         /\ arg' = [rvol_signal |-> rvol_signal,
                    orderflow_analysis |-> orderflow_analysis,
                    price_df |-> price_df]
         /\ ret' = [score |-> calculate_signal_score(rvol_signal, orderflow_analysis,
                                                     price_df)]
    /\ UNCHANGED <<engine_vars, detector_vars, fan_vars, rest_vars>>

\* calculate_signal_score called twice, on an order-flow result without the
\* divergence and on the same result with it, the other inputs being the same
CallScoreWithDivergence ==
    /\ call = "none"
    /\ \E rvol_signal \in RvolSignals, orderflow_analysis \in OrderflowResults,
          price_df \in PriceFrames :
         /\ orderflow_analysis.status = "ok"
         /\ ~orderflow_analysis.bullish_divergence
         /\ call' = "calculate_signal_score_twice"
         /\ arg' = [rvol_signal |-> rvol_signal,
                    orderflow_analysis |-> orderflow_analysis,
                    price_df |-> price_df]
         /\ ret' = [before |-> calculate_signal_score(rvol_signal, orderflow_analysis,
                                                      price_df),
                    after |-> calculate_signal_score(
                                  rvol_signal,
                                  [orderflow_analysis EXCEPT !.bullish_divergence = TRUE],
                                  price_df)]
    /\ UNCHANGED <<engine_vars, detector_vars, fan_vars, rest_vars>>

\* classify_signal(score)
CallClassifySignal ==
    /\ call = "none"
    /\ \E score \in 0..100 :
         /\ call' = "classify_signal"
         /\ arg' = [score |-> score]
         /\ ret' = [classification |-> classify_signal(score)]
    /\ UNCHANGED <<engine_vars, detector_vars, fan_vars, rest_vars>>

\* _get_action_recommendation(score)
CallGetActionRecommendation ==
    /\ call = "none"
    /\ \E score \in 0..100 :
         /\ call' = "get_action_recommendation"
         /\ arg' = [score |-> score]
         /\ ret' = [action |-> get_action_recommendation(score)]
    /\ UNCHANGED <<engine_vars, detector_vars, fan_vars, rest_vars>>

\* generate_signal(symbol, rvol_data, orderflow_data, price_df) on a detector
\* with an empty history, the clock reading now
CallGenerateSignal ==
    /\ call = "none"
    /\ \E rvol_data \in RvolSignals, orderflow \in OrderflowResults,
          price_df \in PriceFrames, now \in 1..MaxClock :
         LET signal == generate_signal(AAA, rvol_data, orderflow, price_df, now)
         IN  /\ call' = "generate_signal"
             /\ arg' = [rvol_data |-> rvol_data, orderflow_data |-> orderflow,
                        price_df |-> price_df, now |-> now]
             /\ ret' = signal
             /\ signals_history' = Append(signals_history, signal)
    /\ UNCHANGED <<engine_vars, fan_vars, rest_vars>>

\* generate_signal called once more with the inputs of the call before, the
\* clock reading the same or later
CallGenerateSignalAgain ==
    /\ call = "generate_signal"
    /\ \E now \in arg.now..MaxClock :
         LET signal == generate_signal(AAA, arg.rvol_data, arg.orderflow_data,
                                       arg.price_df, now)
         IN  /\ call' = "generate_signal_again"
             /\ arg' = [arg EXCEPT !.now = now]
             /\ ret' = signal
             /\ signals_history' = Append(signals_history, signal)
    /\ UNCHANGED <<engine_vars, fan_vars, rest_vars>>

\* the i-th pair of a large universe
Pair(i) == [base |-> [j \in 1..i |-> "A"], quote |-> "USDT"]

\* what scan_all_pairs returns when n pairs have an anomaly: the anomalies in
\* the order of the tasks, which is the iteration order of the set
\* active_pairs; the k-th has the largest rvol
AnomaliesWithPeakAt(n, k) ==
    [i \in 1..n |-> [alert_type |-> "UNUSUAL_VOLUME", symbol |-> Pair(i),
                     rvol |-> IF i = k THEN 1000 ELSE 500]]

\* the candidates scan_and_save and scan_cycle_with_imbalance take from the
\* list of scan_all_pairs when it holds one anomaly more than their limit
CallSelectCandidates ==
    /\ call = "none"
    /\ \E engine \in { "api", "dashboard" } :
         LET limit == IF engine = "api" THEN TOP_CANDIDATES ELSE DASHBOARD_CANDIDATES
         IN  \E k \in 1..(limit + 1) :
                LET signals == AnomaliesWithPeakAt(limit + 1, k)
                IN  /\ call' = "select_candidates"
                    /\ arg' = [engine |-> engine, rvol_signals |-> signals]
                    /\ ret' = [candidates |-> IF engine = "api"
                                              THEN Candidates(signals)
                                              ELSE DashboardCandidates(signals)]
    /\ UNCHANGED <<engine_vars, detector_vars, fan_vars, rest_vars>>

CallNext ==
    \/ CallScanPair
    \/ CallCalculateRvol
    \/ CallDetectBullishDivergence
    \/ CallCalculateCvd
    \/ CallDetectIcebergOrders
    \/ CallAnalyzePair
    \/ CallGetOrderbookImbalance
    \/ CallCalculateSignalScore
    \/ CallScoreWithDivergence
    \/ CallClassifySignal
    \/ CallGetActionRecommendation
    \/ CallGenerateSignal
    \/ CallGenerateSignalAgain
    \/ CallSelectCandidates

CallSpec == Init /\ [][CallNext]_vars

-----------------------------------------------------------------------------
(* The load view: _load_tradable_pairs called time after time on one scanner,
   as MarketScanner.initialize does on each call, with the listing the
   exchange answers *)

\* the tickers of fetch_tickers: a symbol with a quoteVolume that is None,
\* just under the minimum, or the minimum
Tickers ==
    { [symbol |-> sym, quoteVolume |-> v] :
        sym \in { AAA, JUP, SOL, USDC, AAA_BTC },
        v \in { NoVolume, MIN_VOLUME_USD - 1, MIN_VOLUME_USD } }

\* fetch_tickers: a mapping, so a symbol is listed once; the loop takes the
\* tickers in the order of the mapping
Listings ==
    { l \in SeqsUpTo(Tickers, MaxTickers) :
        \A i, j \in 1..Len(l) : l[i].symbol = l[j].symbol => i = j }

LoadTradablePairs ==
    /\ loads < MaxLoads
    /\ \E resp \in { FailResp } \cup { Ok(l) : l \in Listings } :
         /\ active_pairs' = load_tradable_pairs(active_pairs, resp).pairs
         /\ call' = "load_tradable_pairs"
         /\ arg' = resp
         /\ ret' = [error |-> load_tradable_pairs(active_pairs, resp).error]
    /\ loads' = loads + 1
    /\ UNCHANGED <<pc, running, init_error, cycle, tpc, tasks, results,
                   rvol_signals, idx, trades_df, orderflow_data, imbalance_data,
                   all_signals, latest_signals, published, db_cycle, scan_failed,
                   save_failed, fetch_count, book_failed, hung, late,
                   broadcast_failed, detector_vars, fan_vars, ws_vars, manager_vars>>

LoadNext == LoadTradablePairs

LoadSpec == Init /\ [][LoadNext]_vars

-----------------------------------------------------------------------------
(* api_server.py: the websocket view.  The handlers of the /ws endpoint and
   broadcast_signals share the list connected_clients; each runs from one
   await to the next.  A WebSocket is a number; each connects once. *)

\* list.remove(x): the list without the first x
Remove(list, x) ==
    LET first == CHOOSE i \in 1..Len(list) : list[i] = x /\ \A j \in 1..(i - 1) : list[j] # x
    IN  SubSeq(list, 1, first - 1) \o SubSeq(list, first + 1, Len(list))

\* the clean-up loop of broadcast_signals from the k-th of its disconnected
\* clients on: remove raises ValueError for a client that is not in the list,
\* which ends the loop and broadcast_signals
RECURSIVE CleanUp(_, _, _, _)
CleanUp(list, gone, k, calls) ==
    IF k > Len(gone) THEN [list |-> list, calls |-> calls, raised |-> FALSE]
    ELSE IF gone[k] \notin Range(list)
         THEN [list |-> list, calls |-> [calls EXCEPT ![gone[k]] = @ + 1],
               raised |-> TRUE]
         ELSE CleanUp(Remove(list, gone[k]), gone, k + 1,
                      [calls EXCEPT ![gone[k]] = @ + 1])

\* websocket_endpoint up to its receive_text: accept, append to the list,
\* send the initial message
WsConnect ==
    /\ \E c \in 1..MaxClients :
         /\ sock[c] = "none"
         /\ sock' = [sock EXCEPT ![c] = "open"]
         /\ connected_clients' = Append(connected_clients, c)
    /\ UNCHANGED <<bcast_pc, bcast_i, bcast_cur, disconnected, at_start, received,
                   broadcasts, remove_calls, ws_errors,
                   engine_vars, detector_vars, fan_vars, call_vars, load_vars, manager_vars>>

\* the peer of a WebSocket goes away
WsPeerGone ==
    /\ \E c \in 1..MaxClients :
         /\ sock[c] = "open"
         /\ sock' = [sock EXCEPT ![c] = "lost"]
    /\ UNCHANGED <<connected_clients, bcast_pc, bcast_i, bcast_cur, disconnected,
                   at_start, received, broadcasts, remove_calls, ws_errors,
                   engine_vars, detector_vars, fan_vars, call_vars, load_vars, manager_vars>>

\* websocket_endpoint: receive_text raises WebSocketDisconnect and the
\* handler calls connected_clients.remove(websocket)
WsEndpointDisconnect ==
    /\ \E c \in 1..MaxClients :
         /\ sock[c] = "lost"
         /\ sock' = [sock EXCEPT ![c] = "done"]
         /\ remove_calls' = [remove_calls EXCEPT ![c] = @ + 1]
         /\ IF c \in Range(connected_clients)
            THEN /\ connected_clients' = Remove(connected_clients, c)
                 /\ UNCHANGED ws_errors
            ELSE /\ ws_errors' = ws_errors \cup { "endpoint" }
                 /\ UNCHANGED connected_clients
    /\ UNCHANGED <<bcast_pc, bcast_i, bcast_cur, disconnected, at_start, received,
                   broadcasts, engine_vars, detector_vars, fan_vars, call_vars,
                   load_vars, manager_vars>>

\* scan_and_save calls broadcast_signals: it returns at once on an empty
\* list, else it starts the loop and awaits the send to the first client
BroadcastStart ==
    /\ bcast_pc = "idle"
    /\ broadcasts < MaxBroadcasts
    /\ broadcasts' = broadcasts + 1
    /\ at_start' = Range(connected_clients)
    /\ received' = {}
    /\ disconnected' = << >>
    /\ IF connected_clients = << >>
       THEN /\ bcast_pc' = "idle"
            /\ bcast_i' = 0
            /\ bcast_cur' = 0
       ELSE /\ bcast_pc' = "sending"
            /\ bcast_i' = 1
            /\ bcast_cur' = connected_clients[1]
    /\ UNCHANGED <<connected_clients, sock, remove_calls, ws_errors,
                   engine_vars, detector_vars, fan_vars, call_vars, load_vars, manager_vars>>

\* broadcast_signals after a send: the send to an open WebSocket returns and
\* to any other raises, which puts the client on the disconnected list; then
\* the list iterator gives the next client, or the loop ends and the clean-up
\* loop runs
BroadcastSendReturn ==
    /\ bcast_pc = "sending"
    /\ LET sent == sock[bcast_cur] = "open"
           gone == IF sent THEN disconnected ELSE Append(disconnected, bcast_cur)
           after == CleanUp(connected_clients, gone, 1, remove_calls)
       IN  /\ received' = IF sent THEN received \cup { bcast_cur } ELSE received
           /\ disconnected' = gone
           /\ IF bcast_i < Len(connected_clients)
              THEN /\ bcast_cur' = connected_clients[bcast_i + 1]
                   /\ bcast_i' = bcast_i + 1
                   /\ UNCHANGED <<bcast_pc, connected_clients, remove_calls, ws_errors>>
              ELSE /\ bcast_pc' = "idle"
                   /\ connected_clients' = after.list
                   /\ remove_calls' = after.calls
                   /\ ws_errors' = IF after.raised THEN ws_errors \cup { "broadcast" }
                                   ELSE ws_errors
                   /\ UNCHANGED <<bcast_i, bcast_cur>>
    /\ UNCHANGED <<sock, at_start, broadcasts,
                   engine_vars, detector_vars, fan_vars, call_vars, load_vars, manager_vars>>

WsNext ==
    \/ WsConnect
    \/ WsPeerGone
    \/ WsEndpointDisconnect
    \/ BroadcastStart
    \/ BroadcastSendReturn

WsSpec == Init /\ [][WsNext]_vars

-----------------------------------------------------------------------------
(* utils/websocket_manager.py: the manager view.  One task calls listen() or
   connect() on the manager and runs from one await to the next; close() is
   called from another task. *)

\* the values of max_reconnect_attempts a manager is built with
AttemptLimits == { 0, 1, 2, MAX_RECONNECT_ATTEMPTS }

\* a variant of the loop test of connect() that lets the counter reach the
\* maximum and go on
MayAttempt_Inclusive(count, max) == count <= max

\* the loop test of connect()
MayAttempt(count, max) == count < max

\* a variant of AfterAttempt that keeps the counter on success
AfterAttempt_NoReset(count, max, ok) ==
    IF ok THEN [count |-> count, returns |-> "True"]
    ELSE IF count + 1 < max
         THEN [count |-> count + 1, returns |-> "retry"]
         ELSE [count |-> count + 1, returns |-> "False"]

\* the body of the loop of connect() once websockets.connect has returned
\* (ok) or raised: the counter, and whether connect() returns True, sleeps
\* and tries again, or returns False
AfterAttempt(count, max, ok) ==
    IF ok THEN [count |-> 0, returns |-> "True"]
    ELSE IF count + 1 < max
         THEN [count |-> count + 1, returns |-> "retry"]
         ELSE [count |-> count + 1, returns |-> "False"]

\* listen() at the top of its loop: it ends when running is false; without
\* an open socket it calls connect(), which awaits websockets.connect or
\* returns False at once, and then listen() breaks; else it awaits recv
ListenTop(socket, is_running, count, max) ==
    IF ~is_running THEN [mpc |-> "idle", returned_false |-> FALSE]
    ELSE IF socket # "open"
         THEN (IF MayAttempt(count, max)
               THEN [mpc |-> "connecting", returned_false |-> FALSE]
               ELSE [mpc |-> "idle", returned_false |-> TRUE])
         ELSE [mpc |-> "recv", returned_false |-> FALSE]

\* calls made once connect() has returned False are counted
LateCall == IF gave_up THEN late_calls + 1 ELSE late_calls

\* WebSocketManager(...): a new manager replaces the one at rest
MgrConstruct ==
    /\ mpc = "idle"
    /\ managers < MaxManagers
    /\ managers' = managers + 1
    /\ \E max \in AttemptLimits : max_reconnect_attempts' = max
    /\ ws' = "none"
    /\ ws_running' = FALSE
    /\ reconnect_count' = 0
    /\ failures' = 0
    /\ caller' = "none"
    /\ gave_up' = FALSE
    /\ late_calls' = 0
    /\ UNCHANGED <<mpc,
                   engine_vars, detector_vars, fan_vars, call_vars, load_vars, ws_vars>>

\* listen() is called
MgrListen ==
    /\ mpc = "idle"
    /\ late_calls < MaxLateCalls
    /\ ws_running' = TRUE
    /\ caller' = "listen"
    /\ LET top == ListenTop(ws, TRUE, reconnect_count, max_reconnect_attempts)
       IN  /\ mpc' = top.mpc
           /\ gave_up' = (gave_up \/ top.returned_false)
    /\ late_calls' = LateCall
    /\ UNCHANGED <<max_reconnect_attempts, managers, reconnect_count, failures, ws,
                   engine_vars, detector_vars, fan_vars, call_vars, load_vars, ws_vars>>

\* connect() is called by the owner of the manager
MgrConnect ==
    /\ mpc = "idle"
    /\ late_calls < MaxLateCalls
    /\ caller' = "direct"
    /\ mpc' = IF MayAttempt(reconnect_count, max_reconnect_attempts)
              THEN "connecting" ELSE "idle"
    /\ gave_up' = (gave_up \/ ~MayAttempt(reconnect_count, max_reconnect_attempts))
    /\ late_calls' = LateCall
    /\ UNCHANGED <<max_reconnect_attempts, managers, reconnect_count, failures, ws,
                   ws_running,
                   engine_vars, detector_vars, fan_vars, call_vars, load_vars, ws_vars>>

\* websockets.connect returns or raises; connect() returns True, sleeps
\* before the next attempt, or returns False, and listen() goes on to recv
\* or breaks
MgrConnectReturn ==
    /\ mpc = "connecting"
    /\ \E ok \in BOOLEAN :
         LET after == AfterAttempt(reconnect_count, max_reconnect_attempts, ok)
         IN  /\ reconnect_count' = after.count
             /\ failures' = IF ok THEN 0 ELSE failures + 1
             /\ ws' = IF ok THEN "open" ELSE ws
             /\ gave_up' = (gave_up \/ after.returns = "False")
             /\ mpc' = IF after.returns = "retry" THEN "retry_sleep"
                       ELSE IF after.returns = "True" /\ caller = "listen" THEN "recv"
                       ELSE "idle"
    /\ UNCHANGED <<max_reconnect_attempts, managers, ws_running, caller, late_calls,
                   engine_vars, detector_vars, fan_vars, call_vars, load_vars, ws_vars>>

\* connect() after asyncio.sleep(reconnect_delay): the loop test, then the
\* next attempt or the return False after the loop
MgrRetry ==
    /\ mpc = "retry_sleep"
    /\ mpc' = IF MayAttempt(reconnect_count, max_reconnect_attempts)
              THEN "connecting" ELSE "idle"
    /\ gave_up' = (gave_up \/ ~MayAttempt(reconnect_count, max_reconnect_attempts))
    /\ UNCHANGED <<max_reconnect_attempts, managers, reconnect_count, failures, ws,
                   ws_running, caller, late_calls,
                   engine_vars, detector_vars, fan_vars, call_vars, load_vars, ws_vars>>

\* listen(): recv returns a message, which is decoded and handed to
\* on_message; or it raises ConnectionClosed or another exception, after
\* which ws is None and listen() sleeps; or on_error raises in the except
\* clause and listen() ends.  recv on a closed socket raises.
MgrRecvReturn ==
    /\ mpc = "recv"
    /\ \E outcome \in { "message", "closed", "on_error_raised" } :
         /\ ws # "open" => outcome = "closed"
         /\ CASE outcome = "message" ->
                  LET top == ListenTop(ws, ws_running, reconnect_count,
                                       max_reconnect_attempts)
                  IN  /\ mpc' = top.mpc
                      /\ gave_up' = (gave_up \/ top.returned_false)
                      /\ UNCHANGED ws
              [] outcome = "closed" ->
                  /\ ws' = "none"
                  /\ mpc' = "listen_sleep"
                  /\ UNCHANGED gave_up
              [] outcome = "on_error_raised" ->
                  /\ mpc' = "idle"
                  /\ UNCHANGED <<ws, gave_up>>
    /\ UNCHANGED <<max_reconnect_attempts, managers, reconnect_count, failures,
                   ws_running, caller, late_calls,
                   engine_vars, detector_vars, fan_vars, call_vars, load_vars, ws_vars>>

\* listen() after asyncio.sleep(reconnect_delay) in an except clause
MgrListenSleepReturn ==
    /\ mpc = "listen_sleep"
    /\ LET top == ListenTop(ws, ws_running, reconnect_count, max_reconnect_attempts)
       IN  /\ mpc' = top.mpc
           /\ gave_up' = (gave_up \/ top.returned_false)
    /\ UNCHANGED <<max_reconnect_attempts, managers, reconnect_count, failures, ws,
                   ws_running, caller, late_calls,
                   engine_vars, detector_vars, fan_vars, call_vars, load_vars, ws_vars>>

\* close(), called from another task
MgrClose ==
    /\ ws_running
    /\ ws_running' = FALSE
    /\ ws' = IF ws = "open" THEN "closed" ELSE ws
    /\ UNCHANGED <<max_reconnect_attempts, managers, reconnect_count, failures, mpc,
                   caller, gave_up, late_calls,
                   engine_vars, detector_vars, fan_vars, call_vars, load_vars, ws_vars>>

ManagerNext ==
    \/ MgrConstruct
    \/ MgrListen
    \/ MgrConnect
    \/ MgrConnectReturn
    \/ MgrRetry
    \/ MgrRecvReturn
    \/ MgrListenSleepReturn
    \/ MgrClose

ManagerSpec == Init /\ [][ManagerNext]_vars

-----------------------------------------------------------------------------
(* Properties *)

SymbolsOf(signals) == { signals[i].symbol : i \in 1..Len(signals) }

IsSortedDesc(signals) ==
    \A i, j \in 1..Len(signals) : i < j => signals[i].score >= signals[j].score

\* gather has returned in the current cycle
GatherReturned == cycle >= 1 /\ tpc \in {"await_trades", "await_book",
                                         "await_imbalance", "await_price",
                                         "sleep", "exit"}

\* scan_and_save of the current cycle has returned
CycleReturned == cycle >= 1 /\ tpc \in {"sleep", "exit"}

\* scan_and_save of the current cycle is waiting for an answer
InCycle == tpc \in {"await_gather", "await_trades", "await_book",
                    "await_imbalance", "await_price"}

\* C1: a symbol whose fetch or scan fails does not abort scan_all_pairs: once
\* gather has returned, the result holds the anomaly of every other symbol
\* that has one, holds nothing for a failed symbol, and a failed symbol has
\* been fetched once in the cycle.
ScanSurvivesFailedSymbol ==
    /\ \A s \in scan_failed : fetch_count[s] = 1
    /\ GatherReturned =>
         /\ \A s \in DOMAIN results :
              IsAnomaly(results[s]) => results[s] \in Range(rvol_signals)
         /\ SymbolsOf(rvol_signals) \cap scan_failed = {}
         /\ \A s \in scan_failed : results[s] = Failed

\* a cycle in which one symbol failed in the scan and the anomaly of the other
\* went all the way to the broadcast
ScanSurvivesFailedSymbol_Witness ==
    /\ tpc = "sleep"
    /\ scan_failed # {}
    /\ Len(published) = 1
    /\ SymbolsOf(published[1]) = active_pairs \ scan_failed

\* C2: during scan_all_pairs the number of scan_pair tasks in flight never
\* exceeds MAX_CONCURRENT_PAIRS, whatever the size of the universe.
FanOutBounded == fan_in_flight <= MAX_CONCURRENT_PAIRS

\* C3: a failure while processing one candidate (here a failing save of its
\* Signal) does not fail the cycle: when scan_and_save has returned, the
\* Signal of every other candidate is in the cache and in the published list.
CycleSurvivesCandidateFailure ==
    (CycleReturned /\ rvol_signals # << >>) =>
        \A s \in SymbolsOf(Candidates(rvol_signals)) \ save_failed :
            /\ s \in SymbolsOf(latest_signals)
            /\ Len(published) = 1
            /\ s \in SymbolsOf(published[1])

\* C4: every started scan cycle eventually completes, even if the fetch for
\* one symbol never returns.
CycleEventuallyCompletes == InCycle ~> ~InCycle

\* C5 as stated: within one cycle the Signals are saved and published in
\* descending order of score.
SavedAndPublishedDescending ==
    /\ IsSortedDesc(db_cycle)
    /\ \A k \in 1..Len(published) : IsSortedDesc(published[k])

\* C5: within one cycle the published list and the cache are in descending
\* order of score; the saves are made in the order of the scan's candidates.
PublishedDescending ==
    /\ IsSortedDesc(latest_signals)
    /\ \A k \in 1..Len(published) : IsSortedDesc(published[k])
    /\ \A i \in 1..Len(db_cycle) : db_cycle[i].symbol = rvol_signals[i].symbol

\* two Signals saved in ascending order of score and published in descending
PublishedDescending_Witness ==
    /\ Len(published) = 1
    /\ Len(published[1]) = 2
    /\ published[1][1].score > published[1][2].score
    /\ db_cycle[1].score < db_cycle[2].score

UniverseChangedByLoadOnly ==
    /\ [](tpc = "await_gather" =>
            (Range(tasks) = active_pairs /\ DOMAIN results = active_pairs))
    /\ [][active_pairs' # active_pairs => pc = "start"]_vars

\* a second cycle over the full universe after a symbol failed in the scan
UniverseChangedByLoadOnly_Witness ==
    /\ cycle = 2
    /\ tpc = "await_trades"
    /\ scan_failed # {}
    /\ active_pairs = Symbols

\* C8: when the ticker listing fails at start-up or the exchange cannot be
\* reached, initialization fails and the process stops: no scan cycle is
\* started with an empty or partly loaded universe.
InitFailureStopsProcess == init_error # "none" => (pc = "dead" /\ cycle = 0)

\* C9: once shutdown has closed the data clients, no market-data fetch and
\* no Signal write of the cycle in flight is issued.
NothingIssuedAfterClose == late = {}

\* C10: an analyze_pair result without a status tag was computed from a
\* fetched trade sample and a fetched order book.
UntaggedResultHadItsFetches == orderflow_data.status = "ok" => ~book_failed

\* the true ratio of the last volume to the mean of the volumes before it
\* reaches RVOL_THRESHOLD
RatioAtThreshold(df) ==
    /\ df.volume_prev_sum > 0
    /\ df.volume_last * (df.n - 1) * 100 >= RVOL_THRESHOLD * df.volume_prev_sum

\* C11: for a candle series shorter than MIN_CANDLES_REQUIRED scan_pair
\* returns None, whatever the volumes of the series.
ShortSeriesGivesNone ==
    (call = "scan_pair" /\ arg.n < MIN_CANDLES_REQUIRED) => ret = None

\* a series one candle short whose ratio is far above the threshold
ShortSeriesGivesNone_Witness ==
    /\ call = "scan_pair"
    /\ arg.n = MIN_CANDLES_REQUIRED - 1
    /\ RatioAtThreshold(arg)
    /\ ret = None

\* C12: for a series of at least MIN_CANDLES_REQUIRED candles scan_pair
\* returns an anomaly if and only if last volume / mean of the volumes before
\* it is at least RVOL_THRESHOLD.
AnomalyIffRatioAtThreshold ==
    (call = "scan_pair" /\ arg.n >= MIN_CANDLES_REQUIRED) =>
        (IsAnomaly(ret) <=> RatioAtThreshold(arg))

\* C13: calculate_rvol returns 0 whenever the mean of the volumes before the
\* last is zero, and such a series gives no anomaly.
ZeroMeanGivesZero ==
    /\ (call = "calculate_rvol" /\ arg.volume_prev_sum = 0) => ret.rvol = 0
    /\ (call = "scan_pair" /\ arg.volume_prev_sum = 0) => ~IsAnomaly(ret)

\* a full series of zero volumes before a last volume above zero
ZeroMeanGivesZero_Witness ==
    /\ call = "calculate_rvol"
    /\ arg.n >= MIN_CANDLES_REQUIRED
    /\ arg.volume_prev_sum = 0
    /\ arg.volume_last > 0
    /\ ret.rvol = 0

\* C14: detect_bullish_divergence is true if and only if the series have at
\* least lookback + 1 points, the last price is below the price lookback
\* steps before it and the last CVD is above the CVD lookback steps before it.
DivergenceAgainstLookbackStepsBefore ==
    call = "detect_bullish_divergence" =>
        LET p == arg.price_series
            c == arg.cvd_series
            last == Len(arg.price_series)
            expected == /\ last >= arg.lookback + 1
                        /\ p[last] < p[last - arg.lookback]
                        /\ c[last] > c[last - arg.lookback]
        IN  ret.divergence = expected

\* the signed volume of a trade: its size for a buy, minus its size for a sell
SignedVolume(t) == IF t.side = "buy" THEN t.amount ELSE 0 - t.amount

\* C15: for a trade sample that is not empty the CVD series is as long as
\* the sample, starts with the first trade's signed volume and adds to each
\* element the signed volume of the next trade.
CvdIsRunningSum ==
    call = "calculate_cvd" =>
        /\ Len(ret.cvd) = Len(arg.trades)
        /\ ret.cvd[1] = SignedVolume(arg.trades[1])
        /\ \A i \in 2..Len(arg.trades) :
              ret.cvd[i] = ret.cvd[i - 1] + SignedVolume(arg.trades[i])

\* a sample of three trades with a sell between two buys
CvdIsRunningSum_Witness ==
    /\ call = "calculate_cvd"
    /\ Len(arg.trades) = 3
    /\ arg.trades[1].side = "buy"
    /\ arg.trades[2].side = "sell"
    /\ arg.trades[3].side = "buy"
    /\ arg.trades[2].amount > arg.trades[1].amount
    /\ ret.cvd[2] < 0
    /\ ret.cvd[3] = ret.cvd[2] + arg.trades[3].amount

\* size a is strictly above mean + 3 * stddev of the sizes of the levels,
\* the deviation being the sample deviation pandas computes: with n levels of
\* sum S, (a - S/n)^2 > 9 * sum of (x - S/n)^2 / (n - 1), cleared of fractions
AboveThreeSigma(levels, a) ==
    LET n == Len(levels)
        S == Sum([i \in 1..n |-> levels[i].amount])
        dev2 == Sum([i \in 1..n |-> (n * levels[i].amount - S) * (n * levels[i].amount - S)])
    IN  /\ n >= 2
        /\ n * a > S
        /\ (n * a - S) * (n * a - S) * (n - 1) > 9 * dev2

Flagged(side, level) ==
    [side |-> side, price |-> level.price, amount |-> level.amount] \in Range(ret.icebergs)

\* C16: a level of one side is flagged as an iceberg if and only if its size
\* is strictly above mean + 3 * stddev of the sizes of the levels of that
\* side; what is flagged on one side does not depend on the other side.
IcebergIffAboveThreeSigma ==
    call = "detect_iceberg_orders" =>
        /\ \A i \in 1..Len(arg.bids) :
              Flagged("BID", arg.bids[i]) <=> AboveThreeSigma(arg.bids, arg.bids[i].amount)
        /\ \A i \in 1..Len(arg.asks) :
              Flagged("ASK", arg.asks[i]) <=> AboveThreeSigma(arg.asks, arg.asks[i].amount)
        /\ Len(ret.icebergs) <= Len(arg.bids) + Len(arg.asks)

\* a bid far above the other bids is flagged next to asks that hold two such
\* sizes and flag none
IcebergIffAboveThreeSigma_Witness ==
    /\ call = "detect_iceberg_orders"
    /\ Len(arg.bids) = 11
    /\ Len(arg.asks) = 12
    /\ Flagged("BID", arg.bids[1])
    /\ Len(ret.icebergs) = 1
    /\ arg.asks[1].amount = arg.bids[1].amount

\* the summed size of the buys, or of the sells, of a trade sample
VolumeOf(trades, side) ==
    Sum([i \in 1..Len(trades) |-> IF trades[i].side = side THEN trades[i].amount ELSE 0])

\* C17: analyze_pair marks its result STRONG_BUY if and only if the bullish
\* divergence is true and buy volume / sell volume exceeds 1 + CVD_THRESHOLD,
\* samples with buys and no sell included.
StrongIffDivergenceAndRatio ==
    call = "analyze_pair" =>
        LET buys == VolumeOf(arg.trades, "buy")
            sells == VolumeOf(arg.trades, "sell")
            exceeds == \/ sells = 0 /\ buys > 0
                       \/ sells > 0 /\ buys * 100 > STRONG_RATIO * sells
        IN  (ret.signal_strength = "STRONG_BUY") = (ret.bullish_divergence /\ exceeds)

\* get_orderbook_imbalance returned a result with its metrics
ImbalanceReturned == call = "get_orderbook_imbalance" /\ ret.status = "ok"

\* the summed size of the levels of the called book whose price is within
\* 1% of the mid price: at or above mid - band for bids, at or below
\* mid + band for asks
BandSum(side) ==
    LET levels == IF side = "BID" THEN arg.bids ELSE arg.asks
        twice_mid == arg.bids[1].price + arg.asks[1].price
        inside(l) == IF side = "BID" THEN 200 * l.price >= 99 * twice_mid
                                     ELSE 200 * l.price <= 101 * twice_mid
    IN  Sum([i \in 1..Len(levels) |-> IF inside(levels[i]) THEN levels[i].amount ELSE 0])

\* C18 as stated: imbalance_pct is (bid_sum - ask_sum) / (bid_sum + ask_sum)
\* * 100 over the band, 0 when both sums are zero, and within [-100, 100].
ImbalanceIsExactRatio ==
    ImbalanceReturned =>
        LET bid_sum == BandSum("BID")
            ask_sum == BandSum("ASK")
        IN  /\ ret.imbalance_pct * (bid_sum + ask_sum) = (bid_sum - ask_sum) * 10000
            /\ (bid_sum + ask_sum = 0) => ret.imbalance_pct = 0
            /\ ret.imbalance_pct >= 0 - 10000
            /\ ret.imbalance_pct <= 10000

\* C18: imbalance_pct is (bid_sum - ask_sum) / (bid_sum + ask_sum) * 100 over
\* the band rounded to two decimals (within 0.005 of it, and a whole number
\* of hundredths), 0 when both sums are zero, and within [-100, 100].
ImbalanceIsRoundedRatio ==
    ImbalanceReturned =>
        LET bid_sum == BandSum("BID")
            ask_sum == BandSum("ASK")
            error == ret.imbalance_pct * (bid_sum + ask_sum) - (bid_sum - ask_sum) * 10000
        IN  /\ 2 * error <= bid_sum + ask_sum
            /\ 2 * error >= 0 - (bid_sum + ask_sum)
            /\ (bid_sum + ask_sum = 0) => ret.imbalance_pct = 0
            /\ ret.imbalance_pct >= 0 - 10000
            /\ ret.imbalance_pct <= 10000

\* bids of 2 against asks of 1 in the band: 33.33 is reported for 33.333...
ImbalanceIsRoundedRatio_Witness ==
    /\ ImbalanceReturned
    /\ BandSum("BID") = 2
    /\ BandSum("ASK") = 1
    /\ ret.imbalance_pct = 3333

\* the wall reported for a side agrees with the claim's rule over the first
\* 10 levels of that side: a reported wall is one of them and holds at least
\* 30% of their summed size, and a wall is reported when one of them does
WallByFirstTen(levels, wall) ==
    LET first == Take(levels, 10)
        total == Sum([i \in 1..Len(first) |-> first[i].amount])
        IsWall(l) == total > 0 /\ l.amount * 100 >= 30 * total
    IN  /\ wall.detected =>
              \E i \in 1..Len(first) :
                  /\ first[i].price = wall.price
                  /\ first[i].amount = wall.amount
                  /\ IsWall(first[i])
        /\ (\E i \in 1..Len(first) : IsWall(first[i])) => wall.detected

\* C19: wall detection looks at the first 10 levels of a side, and a level
\* is reported as a wall if and only if its size is at least 30% of the
\* summed size of those 10 levels.
WallIffThirtyPercentOfFirstTen ==
    ImbalanceReturned =>
        /\ WallByFirstTen(arg.bids, ret.bid_wall)
        /\ WallByFirstTen(arg.asks, ret.ask_wall)

\* C20: the pressure label follows from the reported imbalance_pct by the
\* bands > 30 strong buy, > 10 moderate buy, < -30 strong sell, < -10
\* moderate sell, otherwise neutral.
PressureFollowsReportedImbalance ==
    ImbalanceReturned =>
        ret.pressure =
            IF ret.imbalance_pct > 3000 THEN "COMPRA FUERTE"
            ELSE IF ret.imbalance_pct > 1000 THEN "COMPRA MODERADA"
            ELSE IF ret.imbalance_pct < 0 - 3000 THEN "VENTA FUERTE"
            ELSE IF ret.imbalance_pct < 0 - 1000 THEN "VENTA MODERADA"
            ELSE "NEUTRAL"

\* the points the claim's table gives for the inputs of the call
TablePoints ==
    LET rs == arg.rvol_signal
        of == arg.orderflow_analysis
        rvol == IF rs = None THEN 0 ELSE rs.rvol
        tagged == of.status # "ok"
        divergence == ~tagged /\ of.bullish_divergence
        ratio == IF tagged THEN 0 ELSE of.buy_sell_ratio
        icebergs == IF tagged THEN 0 ELSE of.icebergs_detected
        squeeze == arg.price_df.n >= BB_PERIOD /\ arg.price_df.squeeze
    IN  (IF rvol >= 1000 THEN 30 ELSE 0)
          + (IF rvol >= 700 /\ rvol < 1000 THEN 25 ELSE 0)
          + (IF rvol >= 500 /\ rvol < 700 THEN 20 ELSE 0)
          + (IF divergence THEN 40 ELSE 0)
          + (IF divergence /\ ratio > 150 THEN 5 ELSE 0)
          + (IF squeeze THEN 20 ELSE 0)
          + (IF icebergs > 0 THEN 10 ELSE 0)

DivergenceNeverLowersScore ==
    call = "calculate_signal_score_twice" =>
        /\ ret.after >= ret.before
        /\ ret.before = 0 =>
              ret.after = IF arg.orderflow_analysis.buy_sell_ratio > 150 THEN 45 ELSE 40

\* a score of 0 that becomes 45 with a ratio above 1.5
DivergenceNeverLowersScore_Witness ==
    /\ call = "calculate_signal_score_twice"
    /\ ret.before = 0
    /\ ret.after = 45
    /\ arg.orderflow_analysis.buy_sell_ratio > 150

\* the tiers of the classification: sniper-shot, close-watch,
\* quiet-accumulation and noise
Tiers == { "DISPARO DE FRANCOTIRADOR", "VIGILANCIA ESTRECHA",
           "ACUMULACION SILENCIOSA", "RUIDO" }

\* C23: classify_signal maps every score from 0 to 100 to one tier, each
\* band including its lower breakpoint: 80 and above sniper-shot, 60 to 79
\* close-watch, 40 to 59 quiet-accumulation, below 40 noise.
ClassifyByInclusiveBands ==
    call = "classify_signal" =>
        /\ ret.classification \in Tiers
        /\ ret.classification = "DISPARO DE FRANCOTIRADOR" <=> arg.score >= 80
        /\ ret.classification = "VIGILANCIA ESTRECHA" <=> (arg.score >= 60 /\ arg.score < 80)
        /\ ret.classification = "ACUMULACION SILENCIOSA" <=> (arg.score >= 40 /\ arg.score < 60)
        /\ ret.classification = "RUIDO" <=> arg.score < 40

\* the score 80, the lowest of the sniper-shot band
ClassifyByInclusiveBands_Witness ==
    /\ call = "classify_signal"
    /\ arg.score = 80
    /\ ret.classification = "DISPARO DE FRANCOTIRADOR"

\* the action text of a tier: aggressive entry for sniper-shot, prepare entry
\* for close-watch, gradual accumulation for quiet-accumulation, no action
\* for noise
ActionOfTier(tier) ==
    CASE tier = "DISPARO DE FRANCOTIRADOR" -> "COMPRA INMEDIATA"
      [] tier = "VIGILANCIA ESTRECHA" -> "PREPARAR ENTRADA"
      [] tier = "ACUMULACION SILENCIOSA" -> "ACUMULAR GRADUALMENTE"
      [] tier = "RUIDO" -> "SIN ACCION"

\* generate_signal has returned a Signal
SignalBuilt == call \in { "generate_signal", "generate_signal_again" }

\* C24: for every score _get_action_recommendation returns the action text
\* of the tier classify_signal returns, and a Signal built by generate_signal
\* carries the classification and the action of the band of its score.
ActionMirrorsTier ==
    /\ call = "get_action_recommendation" =>
          ret.action = ActionOfTier(classify_signal(arg.score))
    /\ SignalBuilt =>
          /\ ret.classification = classify_signal(ret.score)
          /\ ret.action = ActionOfTier(ret.classification)

\* a Signal of score 80, the lowest of its band, is built as a sniper-shot
\* with the aggressive-entry text
ActionMirrorsTier_Witness ==
    /\ call = "generate_signal"
    /\ ret.score = 80
    /\ ret.classification = "DISPARO DE FRANCOTIRADOR"
    /\ ret.action = "COMPRA INMEDIATA"

\* C25: generate_signal is pure given its inputs: a call on a detector with
\* an empty history leaves the history empty, and a second call with the
\* inputs of the first returns the Signal the first returned.
GenerateSignalIsPure ==
    /\ SignalBuilt => signals_history = << >>
    /\ call = "generate_signal_again" => ret = signals_history[1]

\* a ticker of the listing passes the three filters: quote currency in the
\* allow-list, no excluded substring in the base asset, 24h quote volume at
\* least MIN_VOLUME_USD
Qualifies(t) ==
    /\ t.symbol.quote \in QUOTE_CURRENCIES
    /\ \A ex \in EXCLUDED_SYMBOLS : ~Contains(t.symbol.base, ex)
    /\ t.quoteVolume # NoVolume
    /\ t.quoteVolume >= MIN_VOLUME_USD

\* C26: after any sequence of universe loads a symbol is in active_pairs if
\* and only if it passes the three filters in the most recent listing.
UniverseMatchesLatestListing ==
    (call = "load_tradable_pairs" /\ arg.status = "ok") =>
        active_pairs = { t.symbol : t \in { u \in Range(arg.data) : Qualifies(u) } }

\* C27: when the scan finds more anomalies than the candidate limit of the
\* engine, the candidates are the top ones by RVol: no anomaly that is
\* skipped has an RVol above that of an anomaly that is analyzed.
CandidatesAreTopByRvol ==
    call = "select_candidates" =>
        \A i \in 1..Len(arg.rvol_signals), j \in 1..Len(ret.candidates) :
            arg.rvol_signals[i] \notin Range(ret.candidates) =>
                arg.rvol_signals[i].rvol <= ret.candidates[j].rvol

\* a broadcast has run to its end
BroadcastReturned == broadcasts >= 1 /\ bcast_pc = "idle"

\* C29: under any interleaving of connects, disconnect handling and
\* broadcasts the list of connected clients stays consistent: a client in the
\* list when a broadcast starts, and still connected when it ends, has
\* received it; no remove is called for a client that is not in the list and
\* none is called twice for one client; a client whose send succeeded and
\* that is still connected is still in the list.
ClientListConsistent ==
    /\ ws_errors = {}
    /\ \A c \in 1..MaxClients : remove_calls[c] <= 1
    /\ BroadcastReturned =>
          \A c \in 1..MaxClients :
              /\ (c \in at_start /\ sock[c] = "open") => c \in received
              /\ (c \in received /\ sock[c] = "open") => c \in Range(connected_clients)

\* the Signals of a list were built in one cycle
FromOneCycle(signals) ==
    \A i, j \in 1..Len(signals) : signals[i].timestamp = signals[j].timestamp

\* the step ends a cycle that found an anomaly and raised no exception
SuccessfulCycleEnds ==
    /\ InCycle
    /\ tpc' = "sleep"
    /\ rvol_signals' # << >>
    /\ save_failed' = {}
    /\ ~broadcast_failed'

\* C28: a cycle that finds no anomaly or fails with an exception leaves
\* latest_signals unchanged, a cycle that succeeds replaces it with its own
\* Signals in descending order of score, and in every state the cache is in
\* descending order of score and holds the Signals of one cycle.
CacheReplacedBySuccessfulCycleOnly ==
    /\ [](IsSortedDesc(latest_signals) /\ FromOneCycle(latest_signals))
    /\ [][IF SuccessfulCycleEnds
          THEN /\ IsSortedDesc(latest_signals')
               /\ Len(latest_signals') = Len(all_signals')
               /\ Range(latest_signals') = Range(all_signals')
               /\ \A k \in 1..Len(latest_signals') : latest_signals'[k].timestamp = cycle
          ELSE latest_signals' = latest_signals]_vars

\* C30: reconnect_count stays between 0 and max_reconnect_attempts, and so
\* does the number of failed attempts in a row; connect() sets the counter
\* to 0 on success and returns False only after max_reconnect_attempts
\* failures in a row; when it returns False the caller is back at rest (the
\* listen loop has ended), and from then on the counter stays at the
\* maximum, no call of connect() or listen() attempts a connection, and a
\* listen loop that lost its socket ends.
ReconnectCountBounded ==
    /\ [](/\ reconnect_count \in 0..max_reconnect_attempts
          /\ failures \in 0..max_reconnect_attempts
          /\ gave_up => /\ reconnect_count = max_reconnect_attempts
                        /\ mpc \notin { "connecting", "retry_sleep" })
    /\ [][managers' = managers =>
            /\ (mpc = "connecting" /\ mpc' # "connecting" /\ failures' = 0)
                  => reconnect_count' = 0
            /\ (~gave_up /\ gave_up') => /\ failures' = max_reconnect_attempts
                                         /\ mpc' = "idle"
            /\ gave_up => /\ gave_up'
                          /\ reconnect_count' = reconnect_count
                          /\ (mpc = "listen_sleep" /\ mpc' # mpc) => mpc' = "idle"]_vars

\* connect() has given up after five failed attempts in a row, the last
\* three of them made after an earlier success, and listen() and connect()
\* have been called again without an attempt
ReconnectCountBounded_Witness ==
    /\ gave_up
    /\ max_reconnect_attempts = MAX_RECONNECT_ATTEMPTS
    /\ reconnect_count = MAX_RECONNECT_ATTEMPTS
    /\ failures = MAX_RECONNECT_ATTEMPTS
    /\ ws = "none"
    /\ caller = "listen"
    /\ late_calls = MaxLateCalls
    /\ mpc = "idle"

=============================================================================
